---- MODULE Spec2Model ----
(***************************************************************************)
(* histbook: the expression translator (Expr.parse) and the Expr tree      *)
(* types of src/histbook/expression.py.                                    *)
(*                                                                         *)
(* Python values are records.  A Python object of class K is a record      *)
(* whose `tag` is K; a Python tuple is a record tagged "tuple"; a raised   *)
(* exception is a record tagged "raise" that every caller hands on.        *)
(***************************************************************************)
EXTENDS Integers, Sequences, FiniteSets, TLC

VARIABLES
    pc,          \* "call" before the operation of the run is applied, "done" after
    expression,  \* Expr.parse: the argument, as the syntax tree ast.parse / meta gives
    parsed,      \* Expr.parse: what the call returned or raised
    exprs,       \* not_ / and_ / or_: the argument list
    fcn,         \* not_ / and_ / or_: which of the three is called
    out,         \* not_ / and_ / or_: what the call returned or raised
    self,        \* __eq__: the left operand
    other,       \* __eq__: the right operand
    equal,       \* __eq__: the value of self == other
    receiver,    \* FacetChain: the object the last method call was made on
    returned     \* FacetChain: what the last method call returned or raised

vars == <<pc, expression, parsed, exprs, fcn, out, self, other, equal, receiver, returned>>

-----------------------------------------------------------------------------
(* Python values                                                           *)

None == [tag |-> "None"]

PyInt(n) == [type |-> "int", n |-> n]

PyStr(s) == [type |-> "str", s |-> s]

PySet(elems) == [type |-> "set", elems |-> elems]

Tuple(items) == [tag |-> "tuple", items |-> items]

Raise(exc) == [tag |-> "raise", exc |-> exc]

IsRaise(v) == v.tag = "raise"

\* The first exception raised while a list of values was computed left to right.
FirstRaise(seq) ==
    LET i == CHOOSE k \in 1..Len(seq) :
                 IsRaise(seq[k]) /\ \A j \in 1..(k - 1) : ~IsRaise(seq[j])
    IN  seq[i]

AnyRaise(seq) == \E k \in 1..Len(seq) : IsRaise(seq[k])

\* The names bound at module level of expression.py (imports and classes).
ModuleGlobals ==
    {"ast", "itertools", "math", "meta", "numpy", "ExpressionError", "Dim", "Expr",
     "Const", "Name", "Call", "UnaryOp", "BinOp", "Relation", "Interval", "Logical",
     "And", "Or"}

-----------------------------------------------------------------------------
(* Python arithmetic on the values of constants                            *)

RECURSIVE Gcd(_, _)
Gcd(a, b) == IF b = 0 THEN a ELSE Gcd(b, a % b)

Abs(a) == IF a < 0 THEN -a ELSE a

\* A Python float that is the exact quotient num/den, in lowest terms, den > 0.
PyFloat(num, den) ==
    LET g == Gcd(Abs(num), Abs(den))
        sign == IF den < 0 THEN -1 ELSE 1
    IN  [type |-> "float", num |-> sign * (num \div g), den |-> sign * (den \div g)]

IsNumber(v) == v.type \in {"int", "float"}

Numer(v) == IF v.type = "int" THEN v.n ELSE v.num

Denom(v) == IF v.type = "int" THEN 1 ELSE v.den

\* The result of + - * on numbers: an int when both are ints, else a float.
PyNumber(x, y, num, den) ==
    IF x.type = "int" /\ y.type = "int" THEN PyInt(num) ELSE PyFloat(num, den)

\* x // y on ints: the floor of the quotient, for either sign of y.
PyFloorDiv(x, y) == IF y > 0 THEN x \div y ELSE (-x) \div (-y)

RECURSIVE PyPow(_, _)
PyPow(x, y) == IF y = 0 THEN 1 ELSE x * PyPow(x, y - 1)

\* Bitwise operators on ints >= 0, bit by bit; bit(a, b) is the operator on one bit.
RECURSIVE Bitwise(_, _, _)
Bitwise(x, y, f) ==
    IF x = 0 /\ y = 0 THEN 0
    ELSE (IF <<x % 2, y % 2>> \in f THEN 1 ELSE 0) + 2 * Bitwise(x \div 2, y \div 2, f)

BitOr == {<<0, 1>>, <<1, 0>>, <<1, 1>>}

BitAnd == {<<1, 1>>}

BitXor == {<<0, 1>>, <<1, 0>>}

\* calculate[fcn](x, y): the operator applied to two constant values.
calculate(f, x, y) ==
    CASE IsNumber(x) /\ IsNumber(y) /\ f = "+" ->
            PyNumber(x, y, Numer(x) * Denom(y) + Numer(y) * Denom(x), Denom(x) * Denom(y))
      [] IsNumber(x) /\ IsNumber(y) /\ f = "-" ->
            PyNumber(x, y, Numer(x) * Denom(y) - Numer(y) * Denom(x), Denom(x) * Denom(y))
      [] IsNumber(x) /\ IsNumber(y) /\ f = "*" ->
            PyNumber(x, y, Numer(x) * Numer(y), Denom(x) * Denom(y))
      [] IsNumber(x) /\ IsNumber(y) /\ f = "/" ->
            IF Numer(y) = 0 THEN Raise("ZeroDivisionError")
            ELSE PyFloat(Numer(x) * Denom(y), Denom(x) * Numer(y))
      [] x.type = "int" /\ y.type = "int" /\ f = "//" ->
            IF y.n = 0 THEN Raise("ZeroDivisionError") ELSE PyInt(PyFloorDiv(x.n, y.n))
      [] x.type = "int" /\ y.type = "int" /\ f = "%" ->
            IF y.n = 0 THEN Raise("ZeroDivisionError")
            ELSE PyInt(x.n - y.n * PyFloorDiv(x.n, y.n))
      [] x.type = "int" /\ y.type = "int" /\ f = "**" ->
            IF y.n >= 0 THEN PyInt(PyPow(x.n, y.n))
            ELSE IF x.n = 0 THEN Raise("ZeroDivisionError")
            ELSE PyFloat(1, PyPow(x.n, -y.n))
      [] x.type = "int" /\ y.type = "int" /\ x.n >= 0 /\ y.n >= 0 /\ f = "|" ->
            PyInt(Bitwise(x.n, y.n, BitOr))
      [] x.type = "int" /\ y.type = "int" /\ x.n >= 0 /\ y.n >= 0 /\ f = "&" ->
            PyInt(Bitwise(x.n, y.n, BitAnd))
      [] x.type = "int" /\ y.type = "int" /\ x.n >= 0 /\ y.n >= 0 /\ f = "^" ->
            PyInt(Bitwise(x.n, y.n, BitXor))
      [] x.type = "set" /\ y.type = "set" /\ f = "|" -> PySet(x.elems \cup y.elems)
      [] x.type = "set" /\ y.type = "set" /\ f = "&" -> PySet(x.elems \cap y.elems)
      [] x.type = "set" /\ y.type = "set" /\ f = "-" -> PySet(x.elems \ y.elems)
      [] x.type = "set" /\ y.type = "set" /\ f = "^" ->
            PySet((x.elems \ y.elems) \cup (y.elems \ x.elems))
      [] x.type = "set" /\ y.type = "set" /\ f \notin {"|", "&", "-", "^"} ->
            Raise("TypeError")
      [] (x.type = "set") # (y.type = "set") -> Raise("TypeError")

-----------------------------------------------------------------------------
(* The Expr tree types                                                     *)

Dim(names, expr) == [tag |-> "Dim", names |-> names, expr |-> expr]

Const(value) == [tag |-> "Const", value |-> value]

Name(value) == [tag |-> "Name", value |-> PyStr(value)]

\* Call.__init__(self, fcn, *args): args is the tuple of the positional arguments.
Call(f, args) == [tag |-> "Call", fcn |-> f, args |-> args]

\* UnaryOp.__init__(self, fcn, arg) calls Call.__init__(fcn, arg).
UnaryOp(f, arg) == [tag |-> "UnaryOp", fcn |-> f, args |-> <<arg>>]

\* BinOp inherits Call.__init__.
BinOp(f, args) == [tag |-> "BinOp", fcn |-> f, args |-> args]

Relation(cmp, arg, const) ==
    [tag |-> "Relation", cmp |-> cmp, arg |-> arg, const |-> const]

Interval(arg, low, high, lowclosed) ==
    [tag |-> "Interval", arg |-> arg, low |-> low, high |-> high,
     lowclosed |-> lowclosed]

\* Logical.__init__(self, *args)
And(args) == [tag |-> "And", args |-> args]

Or(args) == [tag |-> "Or", args |-> args]

\* isinstance(x, Call): UnaryOp and BinOp are subclasses of Call.
IsCall(x) == x.tag \in {"Call", "UnaryOp", "BinOp"}

\* Python's == on the values a Const or a Name holds.
PyValueEq(v, w) ==
    IF IsNumber(v) /\ IsNumber(w) THEN Numer(v) * Denom(w) = Numer(w) * Denom(v)
    ELSE v.type = w.type /\ v = w

RECURSIVE PyEq(_, _)
\* tuple.__eq__: same length and pairwise ==
PyTupleEq(s, t) ==
    /\ Len(s) = Len(t)
    /\ \A i \in 1..Len(s) : PyEq(s[i], t[i])

\* self == other, by the __eq__ of self's class.
PyEq(a, b) ==
    CASE a.tag = "Const" -> b.tag = "Const" /\ PyValueEq(a.value, b.value)
      [] a.tag = "Name" -> b.tag = "Name" /\ PyValueEq(a.value, b.value)
      [] IsCall(a) -> IsCall(b) /\ a.fcn = b.fcn /\ PyTupleEq(a.args, b.args)
      [] a.tag = "Relation" ->
            /\ b.tag = "Relation"
            /\ a.cmp = b.cmp
            /\ PyEq(a.arg, b.arg)
            /\ PyEq(a.const, b.const)
      [] a.tag = "Interval" ->
            /\ b.tag = "Interval"
            /\ PyEq(a.arg, b.arg)
            /\ PyEq(a.low, b.low)
            /\ PyEq(a.high, b.high)
            /\ a.lowclosed = b.lowclosed
      [] a.tag \in {"And", "Or"} -> b.tag = a.tag /\ PyTupleEq(a.args, b.args)
      [] a.tag = "tuple" -> b.tag = "tuple" /\ PyTupleEq(a.items, b.items)
      [] a.tag = "None" -> b.tag = "None"

-----------------------------------------------------------------------------
(* The logical normalizer: not_, and_, or_                                 *)

\* The table of the comparison with its operands swapped, in place of the table
\* of negations.
swapped(cmp) ==
    CASE cmp = "==" -> "=="
      [] cmp = "!=" -> "!="
      [] cmp = "<" -> ">"
      [] cmp = "<=" -> ">="
      [] cmp = ">" -> "<"
      [] cmp = ">=" -> "<="
      [] cmp = "in" -> "in"
      [] cmp = "not in" -> "not in"

inverse(cmp) ==
    CASE cmp = "==" -> "!="
      [] cmp = "!=" -> "=="
      [] cmp = "<" -> ">="
      [] cmp = "<=" -> ">"
      [] cmp = ">" -> "<="
      [] cmp = ">=" -> "<"
      [] cmp = "in" -> "not in"
      [] cmp = "not in" -> "in"

IsAnd(x) == x.tag = "And"

IsOr(x) == x.tag = "Or"

NotAnd(x) == x.tag # "And"

NotOr(x) == x.tag # "Or"

NotLogical(x) == x.tag \notin {"And", "Or"}

RECURSIVE not_(_)
not_(expr) ==
    IF expr.tag = "Relation"
    THEN Relation(inverse(expr.cmp), expr.arg, expr.const)
    ELSE IF expr.tag = "And"
    THEN LET negated == [i \in 1..Len(expr.args) |-> not_(expr.args[i])]
         IN  IF AnyRaise(negated) THEN FirstRaise(negated) ELSE Or(negated)
    ELSE IF expr.tag = "Or"
    THEN LET simple == SelectSeq(expr.args, NotAnd)
             ands == SelectSeq(expr.args, IsAnd)
             notlogical == [i \in 1..Len(simple) |-> not_(simple[i])]
             logical == [i \in 1..Len(ands) |-> not_(ands[i])]
         IN  IF AnyRaise(notlogical) THEN FirstRaise(notlogical)
             ELSE IF AnyRaise(logical) THEN FirstRaise(logical)
             ELSE IF Len(logical) = 0 THEN And(notlogical)
             ELSE Or([i \in 1..Len(logical) |-> And(<<logical[i]>> \o notlogical)])
    ELSE Raise("AssertionError")

\* x.args for x in a list of Ands or Ors, spliced: the `+= x.args` loops.
RECURSIVE SpliceArgs(_)
SpliceArgs(seq) ==
    IF seq = <<>> THEN <<>> ELSE Head(seq).args \o SpliceArgs(Tail(seq))

\* itertools.product(*iterables): the tuples of the Cartesian product, the
\* rightmost iterable advancing fastest.
RECURSIVE product(_)
product(iterables) ==
    IF iterables = <<>> THEN << <<>> >>
    ELSE LET rest == product(Tail(iterables))
             first == Head(iterables)
             n == Len(rest)
         IN  [k \in 1..(Len(first) * n) |->
                 <<first[((k - 1) \div n) + 1]>> \o rest[((k - 1) % n) + 1]]

and_(args) ==
    LET ands == SelectSeq(args, IsAnd)
        ors0 == SelectSeq(args, IsOr)
        notlogical == SelectSeq(args, NotLogical) \o SpliceArgs(ands)
        ors == ors0 \o <<Or(notlogical)>>
        \* product is handed ONE iterable, the list of the args tuples
        branches == product(<<[i \in 1..Len(ors) |-> Tuple(ors[i].args)]>>)
        result == Or([i \in 1..Len(branches) |-> And(branches[i])])
    IN  IF Len(result.args) = 0 THEN Raise("AssertionError")
        ELSE IF Len(result.args) = 1 THEN result.args[1]
        ELSE result

or_(args) ==
    LET ors == SelectSeq(args, IsOr)
        others == SelectSeq(args, NotOr) \o SpliceArgs(ors)
    IN  Or(others)

-----------------------------------------------------------------------------
(* Syntax trees: the nodes of Python's ast module that reach the translator *)

ast_Num(n) == [kind |-> "Num", n |-> PyInt(n)]

ast_Str(s) == [kind |-> "Str", s |-> PyStr(s)]

ast_Dict(keys) == [kind |-> "Dict", keys |-> keys]

ast_Set(elts) == [kind |-> "Set", elts |-> elts]

ast_Name(id) == [kind |-> "Name", id |-> id, ctx |-> "Load"]

ast_Compare(left, ops, comparators) ==
    [kind |-> "Compare", left |-> left, ops |-> ops, comparators |-> comparators]

ast_UnaryOp(op, operand) == [kind |-> "UnaryOp", op |-> op, operand |-> operand]

ast_BinOp(left, op, right) ==
    [kind |-> "BinOp", left |-> left, op |-> op, right |-> right]

ast_BoolOp(op, values) == [kind |-> "BoolOp", op |-> op, values |-> values]

ast_Call(func, args) == [kind |-> "Call", func |-> func, args |-> args]

ast_Attribute(value, attr) == [kind |-> "Attribute", value |-> value, attr |-> attr]

ast_Subscript(value) == [kind |-> "Subscript", value |-> value]

-----------------------------------------------------------------------------
(* Expr.parse: resolve, recurse and the entry                              *)

\* Expr.recognized: the registry, keyed by the function objects math.sqrt, numpy.sqrt.
recognized == [path \in {<<"math", "sqrt">>, <<"numpy", "sqrt">>} |-> "sqrt"]

\* A free name read inside recurse: bound only if the module binds it.
LoadGlobal(id) ==
    IF id \in ModuleGlobals THEN [tag |-> "object", path |-> <<id>>]
    ELSE Raise("NameError")

\* len(ops) in the two Compare conditions: `ops` is no parameter, no local and no
\* module name, only an attribute of node.
len_ops ==
    LET ops == LoadGlobal("ops")
    IN  IF IsRaise(ops) THEN ops ELSE Raise("TypeError")

RECURSIVE resolve(_)
resolve(node) ==
    IF node.kind = "Attribute"
    THEN LET base == resolve(node.value)
         IN  IF IsRaise(base) THEN base
             ELSE IF Append(base.path, node.attr) \in DOMAIN recognized
             THEN [tag |-> "object", path |-> Append(base.path, node.attr)]
             ELSE Raise("AttributeError")
    ELSE IF node.kind = "Name"
    THEN IF node.id \in ModuleGlobals THEN [tag |-> "object", path |-> <<node.id>>]
         ELSE Raise("KeyError")
    ELSE Raise("ExpressionError")

cmp_of(op) ==
    CASE op = "Eq" -> "=="
      [] op = "NotEq" -> "!="
      [] op = "Lt" -> "<"
      [] op = "LtE" -> "<="
      [] op = "Gt" -> ">"
      [] op = "GtE" -> ">="
      [] op = "In" -> "in"
      [] op = "NotIn" -> "not in"
      [] OTHER -> "unsupported"

fcn_of(op) ==
    CASE op = "Add" -> "+"
      [] op = "Sub" -> "-"
      [] op = "Mult" -> "*"
      [] op = "Div" -> "/"
      [] op = "FloorDiv" -> "//"
      [] op = "Mod" -> "%"
      [] op = "Pow" -> "**"
      [] op = "BitOr" -> "|"
      [] op = "BitAnd" -> "&"
      [] op = "BitXor" -> "^"
      [] OTHER -> "unsupported"

IsConst(x) == x.tag = "Const"

IsBinOp(x, f) == x.tag = "BinOp" /\ x.fcn = f

\* Const(set(x.value for x in content)): a set value is unhashable.
set_of(content) ==
    IF \E i \in 1..Len(content) : content[i].value.type = "set"
    THEN Raise("TypeError")
    ELSE Const(PySet({content[i].value : i \in 1..Len(content)}))

\* The single-comparison case once both operands are translated.
single_comparison(cmp, left, right) ==
    IF ~IsConst(left) /\ IsConst(right) THEN Relation(cmp, left, right)
    ELSE IF IsConst(left) /\ ~IsConst(right) THEN Relation(inverse(cmp), right, left)
    ELSE Raise("ExpressionError")

\* The two-operator case once the three operands are translated.
interval_comparison(arg, low, high, lowclosed) ==
    IF IsConst(low) /\ IsConst(high) /\ ~IsConst(arg)
    THEN Interval(arg, low, high, lowclosed)
    ELSE Raise("ExpressionError")

\* The BinOp case without the branch for two constants.
binop_unfolded(f, left, right) ==
    IF IsBinOp(left, f) /\ IsBinOp(right, f)
    THEN BinOp(f, <<Tuple(left.args \o right.args)>>)
    ELSE IF IsBinOp(left, f)
    THEN BinOp(f, <<Tuple(left.args \o <<right>>)>>)
    ELSE IF IsBinOp(right, f)
    THEN BinOp(f, <<Tuple(<<left>> \o right.args)>>)
    ELSE BinOp(f, <<Tuple(<<left, right>>)>>)

\* The BinOp case once both operands are translated.
binop_of(f, left, right) ==
    IF IsConst(left) /\ IsConst(right)
    THEN LET value == calculate(f, left.value, right.value)
         IN  IF "tag" \in DOMAIN value THEN value ELSE Const(value)
    ELSE IF IsBinOp(left, f) /\ IsBinOp(right, f)
    THEN BinOp(f, <<Tuple(left.args \o right.args)>>)
    ELSE IF IsBinOp(left, f)
    THEN BinOp(f, <<Tuple(left.args \o <<right>>)>>)
    ELSE IF IsBinOp(right, f)
    THEN BinOp(f, <<Tuple(<<left>> \o right.args)>>)
    ELSE BinOp(f, <<Tuple(<<left, right>>)>>)

\* The unary minus and bitwise-not cases once the operand is translated.
unary_of(f, content) ==
    IF content.tag = "UnaryOp" /\ content.fcn = f THEN content
    ELSE UnaryOp(f, content)

RECURSIVE recurse(_, _, _)
recurse(node, relations, intervals) ==
    IF node.kind = "Num" THEN Const(node.n)
    ELSE IF node.kind = "Str" THEN Const(node.s)
    ELSE IF node.kind = "Dict" /\ Len(node.keys) = 0 THEN Const(PySet({}))
    ELSE IF node.kind = "Set"
    THEN LET content == [i \in 1..Len(node.elts) |-> recurse(node.elts[i], FALSE, FALSE)]
         IN  IF AnyRaise(content) THEN FirstRaise(content)
             ELSE IF \A i \in 1..Len(content) : IsConst(content[i]) THEN set_of(content)
             ELSE Raise("ExpressionError")
    ELSE IF node.kind = "Name" /\ node.ctx = "Load" THEN Name(node.id)
    ELSE IF relations /\ node.kind = "Compare" /\ IsRaise(len_ops) THEN len_ops
    ELSE IF relations /\ node.kind = "Compare" /\ len_ops = 1
    THEN LET cmp == cmp_of(node.ops[1])
             left == recurse(node.left, FALSE, FALSE)
             right == recurse(node.comparators[1], FALSE, FALSE)
         IN  IF cmp = "unsupported" THEN Raise("ExpressionError")
             ELSE IF IsRaise(left) THEN left
             ELSE IF IsRaise(right) THEN right
             ELSE single_comparison(cmp, left, right)
    ELSE IF intervals /\ node.kind = "Compare" /\ IsRaise(len_ops) THEN len_ops
    ELSE IF intervals /\ node.kind = "Compare" /\ len_ops = 2
    THEN LET ascending == node.ops \in {<<"LtE", "Lt">>, <<"Lt", "LtE">>}
             descending == node.ops \in {<<"Gt", "GtE">>, <<"GtE", "Gt">>}
             first == recurse(node.left, FALSE, FALSE)
             last == recurse(node.comparators[2], FALSE, FALSE)
             low == IF ascending THEN first ELSE last
             high == IF ascending THEN last ELSE first
             lowclosed == node.ops \in {<<"LtE", "Lt">>, <<"Gt", "GtE">>}
             arg == recurse(node.comparators[1], FALSE, FALSE)
         IN  IF ~ascending /\ ~descending THEN Raise("ExpressionError")
             ELSE IF IsRaise(low) THEN low
             ELSE IF IsRaise(high) THEN high
             ELSE IF IsRaise(arg) THEN arg
             ELSE interval_comparison(arg, low, high, lowclosed)
    ELSE IF node.kind = "Compare" THEN Raise("ExpressionError")
    ELSE IF relations /\ node.kind = "UnaryOp" /\ node.op = "Not"
    THEN LET operand == recurse(node.operand, TRUE, FALSE)
         IN  IF IsRaise(operand) THEN operand ELSE not_(operand)
    ELSE IF relations /\ node.kind = "BoolOp"
    THEN LET values == [i \in 1..Len(node.values) |-> recurse(node.values[i], TRUE, FALSE)]
         IN  IF AnyRaise(values) THEN FirstRaise(values)
             ELSE IF node.op = "And" THEN and_(values)
             ELSE or_(values)
    ELSE IF node.kind = "BoolOp" THEN Raise("ExpressionError")
    ELSE IF node.kind = "UnaryOp" /\ node.op \in {"USub", "Invert"}
    THEN LET content == recurse(node.operand, FALSE, FALSE)
         IN  IF IsRaise(content) THEN content
             ELSE unary_of(IF node.op = "USub" THEN "-" ELSE "~", content)
    ELSE IF node.kind = "UnaryOp" /\ node.op = "UAdd"
    THEN recurse(node.operand, FALSE, FALSE)
    ELSE IF node.kind = "UnaryOp" THEN Raise("ExpressionError")
    ELSE IF node.kind = "BinOp"
    THEN LET f == fcn_of(node.op)
             left == recurse(node.left, FALSE, FALSE)
             right == recurse(node.right, FALSE, FALSE)
         IN  IF f = "unsupported" THEN Raise("ExpressionError")
             ELSE IF IsRaise(left) THEN left
             ELSE IF IsRaise(right) THEN right
             ELSE binop_of(f, left, right)
    ELSE IF node.kind = "Call"
    THEN LET callee ==
                 IF node.func.kind # "Name" THEN Raise("AttributeError")
                 ELSE IF node.func.id \in {recognized[p] : p \in DOMAIN recognized}
                 THEN PyStr(node.func.id)
                 ELSE LET object == resolve(node.func)
                      IN  IF IsRaise(object) THEN object
                          ELSE IF object.path \in DOMAIN recognized
                          THEN PyStr(recognized[object.path])
                          ELSE Raise("ExpressionError")
             args == [i \in 1..Len(node.args) |-> recurse(node.args[i], FALSE, FALSE)]
         IN  IF "tag" \in DOMAIN callee THEN callee
             ELSE IF AnyRaise(args) THEN FirstRaise(args)
             ELSE Call(callee.s, <<Tuple(args)>>)
    ELSE None

\* Expr.parse(expression).  A string has been parsed to mod.body by ast.parse, a
\* callable decompiled to a FunctionDef or a Lambda by meta.
parse(e) ==
    LET names == <<>>
        result(node) ==
            LET expr == recurse(node, TRUE, TRUE)
            IN  IF IsRaise(expr) THEN expr ELSE Dim(names, expr)
    IN  IF e.form = "callable" /\ e.fcn.kind = "FunctionDef"
           /\ Len(e.fcn.body) = 1 /\ e.fcn.body[1].kind = "Return"
        THEN result(e.fcn.body[1].value)
        ELSE IF e.form = "callable" /\ e.fcn.kind = "Lambda"
        THEN IF "value" \in DOMAIN e.fcn.body THEN result(e.fcn.body.value)
             ELSE Raise("AttributeError")
        ELSE IF e.form = "str" /\ Len(e.body) = 1 /\ e.body[1].kind = "Expr"
        THEN result(e.body[1].value)
        ELSE Raise("TypeError")

-----------------------------------------------------------------------------
(* The facet chains of src/histbook/vega.py: FacetChain and Plotable        *)

\* An axis object, and a histogram with its grouping and fixed axes.
Axis(name) == [tag |-> "Axis", name |-> name]

Hist(group, fixed) == [tag |-> "Hist", group |-> group, fixed |-> fixed]

OverlayFacet(axis) == [tag |-> "OverlayFacet", axis |-> axis]

StackFacet(axis) == [tag |-> "StackFacet", axis |-> axis]

BesideFacet(axis) == [tag |-> "BesideFacet", axis |-> axis]

BelowFacet(axis) == [tag |-> "BelowFacet", axis |-> axis]

StepFacet(axis, profile) == [tag |-> "StepFacet", axis |-> axis, profile |-> profile]

AreaFacet(axis, profile) == [tag |-> "AreaFacet", axis |-> axis, profile |-> profile]

LineFacet(axis, profile, error) ==
    [tag |-> "LineFacet", axis |-> axis, profile |-> profile, error |-> error]

MarkerFacet(axis, profile, error) ==
    [tag |-> "MarkerFacet", axis |-> axis, profile |-> profile, error |-> error]

\* FacetChain.__init__: the object constructed, with its _source and _chain.
FacetChain(source, item) ==
    IF source.tag = "FacetChain"
    THEN [tag |-> "FacetChain", source |-> source.source,
          chain |-> source.chain \o <<item>>]
    ELSE [tag |-> "FacetChain", source |-> source, chain |-> <<item>>]

\* Plotable.__init__.
Plotable(source, item) ==
    IF source.tag = "FacetChain"
    THEN [tag |-> "Plotable", source |-> source.source,
          chain |-> source.chain \o <<item>>]
    ELSE [tag |-> "Plotable", source |-> source, chain |-> <<item>>]

\* any(isinstance(x, classes) for x in this._chain)
AnyFacet(this, classes) == \E i \in 1..Len(this.chain) : this.chain[i].tag \in classes

singleaxis(this, axis) ==
    IF axis = None
    THEN LET axes == this.source.group \o this.source.fixed
         IN  IF Len(axes) = 1 THEN axes[1] ELSE Raise("TypeError")
    ELSE axis

\* this._source.axis[axis] for the name of an axis of the histogram.
asaxis(this, axis) ==
    IF axis = None THEN None
    ELSE IF "tag" \in DOMAIN axis /\ axis.tag = "Axis" THEN axis
    ELSE LET axes == this.source.group \o this.source.fixed
         IN  axes[CHOOSE i \in 1..Len(axes) : axes[i].name = axis.s]

overlay(this, axis) ==
    IF AnyFacet(this, {"OverlayFacet"}) THEN Raise("TypeError")
    ELSE FacetChain(this, OverlayFacet(asaxis(this, axis)))

stack(this, axis) ==
    IF AnyFacet(this, {"StackFacet"}) THEN Raise("TypeError")
    ELSE FacetChain(this, StackFacet(asaxis(this, axis)))

beside(this, axis) ==
    IF AnyFacet(this, {"BesideFacet"}) THEN Raise("TypeError")
    ELSE FacetChain(this, BesideFacet(asaxis(this, axis)))

below(this, axis) ==
    IF AnyFacet(this, {"BelowFacet"}) THEN Raise("TypeError")
    ELSE FacetChain(this, BelowFacet(asaxis(this, axis)))

\* step without the test for a StackFacet.
step_any(this, axis, profile) ==
    LET single == singleaxis(this, axis)
    IN  IF single = Raise("TypeError") THEN single
        ELSE Plotable(this, StepFacet(asaxis(this, single), asaxis(this, profile)))

step(this, axis, profile) ==
    IF AnyFacet(this, {"StackFacet"}) THEN Raise("TypeError")
    ELSE LET single == singleaxis(this, axis)
         IN  IF single = Raise("TypeError") THEN single
             ELSE Plotable(this, StepFacet(asaxis(this, single), asaxis(this, profile)))

area(this, axis, profile) ==
    LET single == singleaxis(this, axis)
    IN  IF single = Raise("TypeError") THEN single
        ELSE Plotable(this, AreaFacet(asaxis(this, single), asaxis(this, profile)))

line(this, axis, profile, error) ==
    IF AnyFacet(this, {"StackFacet"}) THEN Raise("TypeError")
    ELSE IF error /\ AnyFacet(this, {"BesideFacet", "BelowFacet"})
    THEN Raise("NotImplementedError")
    ELSE LET single == singleaxis(this, axis)
         IN  IF single = Raise("TypeError") THEN single
             ELSE Plotable(this, LineFacet(asaxis(this, single), asaxis(this, profile),
                                           error))

marker(this, axis, profile, error) ==
    IF AnyFacet(this, {"StackFacet"}) THEN Raise("TypeError")
    ELSE IF error /\ AnyFacet(this, {"BesideFacet", "BelowFacet"})
    THEN Raise("NotImplementedError")
    ELSE LET single == singleaxis(this, axis)
         IN  IF single = Raise("TypeError") THEN single
             ELSE Plotable(this, MarkerFacet(asaxis(this, single),
                                             asaxis(this, profile), error))

-----------------------------------------------------------------------------
(* The inputs of a run                                                     *)

\* How many variable names and how large a numeric literal the inputs use.
MaxNames == 2

MaxNum == 2

\* How many distinct Relations the arguments of not_ / and_ / or_ are built from.
MaxRels == 3

\* How many nodes a tree returned by the normalizer may have for the caller to
\* pass it on to a further call.
MaxSize == 4

NamePool == <<"x", "y", "z", "w", "v">>

Idle == [tag |-> "idle"]

NameNodes == {ast_Name(NamePool[i]) : i \in 1..MaxNames}

NumNodes == {ast_Num(n) : n \in 0..MaxNum}

Leaves == NameNodes \cup NumNodes

\* Node kinds no case of recurse handles.
Unhandled ==
    {ast_Subscript(ast_Name("x")), ast_Dict(<<ast_Num(1)>>),
     ast_Attribute(ast_Name("x"), "y")}

SetNodes ==
    {ast_Dict(<<>>), ast_Set(<<ast_Num(1)>>), ast_Set(<<ast_Num(2), ast_Num(1)>>),
     ast_Set(<<ast_Name("x"), ast_Num(1)>>), ast_Set(<<ast_Set(<<ast_Num(1)>>)>>),
     ast_Set(<<ast_Subscript(ast_Name("x"))>>)}

UnaryOperators == {"USub", "UAdd", "Invert", "Not"}

BinaryOperators ==
    {"Add", "Sub", "Mult", "Div", "FloorDiv", "Mod", "Pow", "BitOr", "BitAnd",
     "BitXor", "LShift"}

\* The operators nested constant operands stay integers under.
RingOperators == {"Add", "Sub", "Mult"}

CompareOperators == {"Eq", "NotEq", "Lt", "LtE", "Gt", "GtE", "In", "NotIn", "Is"}

OrderOperators == {"Lt", "LtE", "Gt", "GtE"}

Unary1 == {ast_UnaryOp(op, a) : op \in UnaryOperators, a \in Leaves \cup Unhandled}

Binary1 == {ast_BinOp(a, op, b) : a \in Leaves, op \in BinaryOperators, b \in Leaves}

Ring1 == {ast_BinOp(a, op, b) : a \in Leaves, op \in RingOperators, b \in Leaves}

NameSums == {ast_BinOp(a, op, b) : a \in NameNodes, op \in {"Add", "Sub"}, b \in NameNodes}

BinarySpecial ==
    {ast_BinOp(a, op, b) : a \in Unhandled \cup SetNodes, op \in {"Add", "BitOr"},
                           b \in Leaves \cup SetNodes}

Callees ==
    {ast_Name("sqrt"), ast_Name("foo"), ast_Name("math"),
     ast_Attribute(ast_Name("math"), "sqrt"), ast_Attribute(ast_Name("numpy"), "sqrt"),
     ast_Attribute(ast_Name("foo"), "bar")}

Calls ==
    {ast_Call(f, args) : f \in Callees,
        args \in {<<>>} \cup {<<a>> : a \in Leaves \cup Unhandled}
                 \cup {<<ast_Name("x"), b>> : b \in Leaves}}

Unary2 == {ast_UnaryOp(op, a) : op \in UnaryOperators, a \in Unary1 \cup NameSums}

Unary3 ==
    {ast_UnaryOp(op, ast_UnaryOp(op, ast_UnaryOp(op, a))) :
        op \in {"USub", "Invert"}, a \in Leaves}

Binary2 ==
    {ast_BinOp(a, op, b) : a \in Ring1, op \in RingOperators, b \in Leaves}
    \cup {ast_BinOp(a, op, b) : a \in Leaves, op \in RingOperators, b \in Ring1}
    \cup {ast_BinOp(a, op, b) : a \in NameSums, op \in {"Add", "Sub"}, b \in NameSums}
    \cup {ast_BinOp(a, "Add", b) : a \in Unary1, b \in Leaves}

Arithmetic ==
    Leaves \cup Unhandled \cup SetNodes \cup {ast_Str("s")} \cup Unary1 \cup Binary1
    \cup BinarySpecial \cup Calls \cup Unary2 \cup Unary3 \cup Binary2

\* The operands comparisons are built from.
Sides ==
    Leaves \cup {ast_Str("s"), ast_Set(<<ast_Num(1)>>), ast_Subscript(ast_Name("x")),
                 ast_BinOp(ast_Name("x"), "Add", ast_Num(1)),
                 ast_UnaryOp("USub", ast_Name("x"))}

Compare1 ==
    {ast_Compare(l, <<op>>, <<r>>) : l \in Sides, op \in CompareOperators, r \in Sides}

Compare2 ==
    {ast_Compare(l, <<op1, op2>>, <<m, r>>) :
        l \in Leaves, op1 \in OrderOperators \cup {"Eq"}, m \in Leaves,
        op2 \in OrderOperators \cup {"Eq"}, r \in Leaves}

Compare3 ==
    {ast_Compare(l, <<"Lt", "Lt", "Lt">>, <<m, r, ast_Num(2)>>) :
        l \in Leaves, m \in NameNodes, r \in Leaves}

\* A few comparisons, as operands of larger trees.
SomeCompares ==
    {ast_Compare(ast_Name("x"), <<op>>, <<ast_Num(1)>>) : op \in {"Lt", "Eq"}}
    \cup {ast_Compare(ast_Num(0), <<"Lt">>, <<ast_Name("y")>>),
          ast_Compare(ast_Num(0), <<"LtE", "Lt">>, <<ast_Name("x"), ast_Num(2)>>)}

BoolOperands == SomeCompares \cup NameNodes \cup {ast_Num(1), ast_Subscript(ast_Name("x"))}

Bool1 ==
    {ast_UnaryOp("Not", a) : a \in BoolOperands}
    \cup {ast_BoolOp(op, <<a, b>>) : op \in {"And", "Or"}, a \in BoolOperands,
                                     b \in BoolOperands}
    \cup {ast_BoolOp(op, <<a, b, c>>) : op \in {"And", "Or"}, a \in NameNodes,
                                        b \in BoolOperands, c \in NameNodes}

SomeBools ==
    {ast_UnaryOp("Not", a) : a \in NameNodes}
    \cup {ast_BoolOp(op, <<a, b>>) : op \in {"And", "Or"}, a \in NameNodes,
                                     b \in NameNodes \cup SomeCompares}

Bool2 ==
    {ast_UnaryOp("Not", a) : a \in SomeBools}
    \cup {ast_BoolOp(op, <<a, b>>) : op \in {"And", "Or"}, a \in SomeBools,
                                     b \in SomeBools \cup NameNodes}
    \cup {ast_BoolOp(op, <<a, b>>) : op \in {"And", "Or"}, a \in NameNodes,
                                     b \in SomeBools}

\* Comparison and boolean syntax below arithmetic syntax.
Nested ==
    LET inner == SomeCompares \cup SomeBools
    IN  {ast_BinOp(a, "Add", b) : a \in inner, b \in Leaves}
        \cup {ast_BinOp(a, "Add", b) : a \in Leaves, b \in inner}
        \cup {ast_UnaryOp(op, a) : op \in {"USub", "UAdd", "Invert"}, a \in inner}
        \cup {ast_Call(ast_Name("sqrt"), <<a>>) : a \in inner}
        \cup {ast_Set(<<a>>) : a \in inner}
        \cup {ast_Compare(a, <<"Lt">>, <<ast_Num(1)>>) : a \in inner}
        \cup {ast_Compare(ast_Num(0), <<"Lt", "LtE">>, <<a, ast_Num(1)>>) : a \in inner}

Nodes ==
    Arithmetic \cup Compare1 \cup Compare2 \cup Compare3 \cup Bool1 \cup Bool2
    \cup Nested

\* A one-line string: mod.body of ast.parse(expression).
Text(body) == [form |-> "str", body |-> body]

\* A callable: what meta.decompiler.decompile_func gave for it.
Callable(f) == [form |-> "callable", fcn |-> f]

ast_Expr(value) == [kind |-> "Expr", value |-> value]

ast_Return(value) == [kind |-> "Return", value |-> value]

ast_Assign == [kind |-> "Assign"]

\* The nodes the inputs other than one-expression strings are built from.
SomeNodes == Leaves \cup Unhandled \cup Unary2 \cup SomeCompares \cup SomeBools

Expressions ==
    {Text(<<ast_Expr(n)>>) : n \in Nodes}
    \cup {Text(<<>>), Text(<<ast_Assign>>)}
    \cup {Text(<<ast_Expr(n), ast_Expr(ast_Name("y"))>>) : n \in Leaves}
    \cup {Callable([kind |-> "FunctionDef", body |-> <<ast_Return(n)>>]) : n \in SomeNodes}
    \cup {Callable([kind |-> "FunctionDef", body |-> <<ast_Assign, ast_Return(n)>>]) :
            n \in Leaves}
    \cup {Callable([kind |-> "FunctionDef", body |-> <<ast_Expr(n)>>]) : n \in Leaves}
    \cup {Callable([kind |-> "Lambda", body |-> n]) : n \in SomeNodes \ NumNodes}

\* The Relations A, B, C, ... of a run of the normalizer.
RelPool ==
    <<Relation("<", Name("x"), Const(PyInt(0))), Relation("==", Name("y"), Const(PyInt(1))),
      Relation("in", Name("x"), Const(PySet({PyInt(1)}))),
      Relation(">=", Name("x"), Const(PyInt(0))),
      Relation("!=", Name("y"), Const(PyInt(1)))>>

Rels == {RelPool[i] : i \in 1..MaxRels}

Ands ==
    {And(<<a, b>>) : a \in Rels, b \in Rels} \cup {And(<<RelPool[1], RelPool[2], RelPool[3]>>)}

Ors ==
    {Or(<<a, b>>) : a \in Rels, b \in Rels}
    \cup {Or(<<And(<<RelPool[1], RelPool[2]>>), c>>) : c \in Rels}
    \cup {Or(<<c, And(<<RelPool[1], RelPool[2]>>)>>) : c \in Rels}
    \cup {Or(<<And(<<RelPool[1], RelPool[2]>>), And(<<c, RelPool[3]>>)>>) : c \in Rels}
    \cup {Or(<<a, And(<<RelPool[2], RelPool[3]>>), And(<<RelPool[1], a>>)>>) : a \in Rels}

\* What the operand of `not`, `and`, `or` can translate to besides these.
Terms ==
    {Name("x"), None, Const(PyInt(1)),
     Interval(Name("x"), Const(PyInt(0)), Const(PyInt(2)), TRUE)}

Arguments == Rels \cup Ands \cup Ors \cup Terms

ArgumentLists ==
    {<<a>> : a \in Arguments}
    \cup {<<a, b>> : a \in Arguments, b \in Arguments}
    \cup {<<a, b, c>> : a \in Rels \cup Ands, b \in Rels \cup Ands \cup Ors, c \in Rels}

\* The trees == is applied to.
Trees ==
    LET x == Name("x")
        y == Name("y")
        one == Const(PyInt(1))
        leaves == {x, y, one, Const(PyInt(0)), Const(PyStr("x")), Const(PySet({PyInt(1)})),
                   None}
        calls == {[tag |-> t, fcn |-> f, args |-> args] :
                     t \in {"Call", "UnaryOp", "BinOp"}, f \in {"-", "+", "sqrt"},
                     args \in {<<x>>, <<y>>, <<x, y>>, <<Tuple(<<x, y>>)>>,
                               <<Tuple(<<x>>)>>}}
        relations == {Relation(c, a, k) : c \in {"<", ">="}, a \in {x, y},
                                         k \in {one, Const(PyInt(0))}}
        intervals == {Interval(a, Const(PyInt(0)), k, b) : a \in {x, y},
                                         k \in {one, Const(PyInt(0))}, b \in BOOLEAN}
        logicals == {[tag |-> t, args |-> args] : t \in {"And", "Or"},
                        args \in {<<RelPool[1], RelPool[2]>>, <<RelPool[2], RelPool[1]>>,
                                  <<RelPool[1]>>, <<Tuple(<<RelPool[1], RelPool[2]>>)>>,
                                  <<>>}}
    IN  leaves \cup calls \cup relations \cup intervals \cup logicals
        \cup {Tuple(<<x, y>>), Tuple(<<x>>), UnaryOp("-", UnaryOp("-", x)),
              Call("-", <<UnaryOp("-", x)>>)}

-----------------------------------------------------------------------------
(* The runs: one call of Expr.parse, of a normalizer function, or of ==     *)

InitParse ==
    /\ pc = "call"
    /\ expression \in Expressions
    /\ parsed = Idle
    /\ exprs = Idle /\ fcn = Idle /\ out = Idle
    /\ self = Idle /\ other = Idle /\ equal = Idle
    /\ receiver = Idle /\ returned = Idle

Parse ==
    /\ pc = "call"
    /\ parsed' = parse(expression)
    /\ pc' = "done"
    /\ UNCHANGED <<expression, exprs, fcn, out, self, other, equal, receiver, returned>>

Spec == InitParse /\ [][Parse]_vars

InitLogic ==
    /\ pc = "call"
    /\ exprs \in ArgumentLists
    /\ fcn = Idle /\ out = Idle
    /\ expression = Idle /\ parsed = Idle
    /\ self = Idle /\ other = Idle /\ equal = Idle
    /\ receiver = Idle /\ returned = Idle

Negate ==
    /\ pc = "call"
    /\ Len(exprs) = 1
    /\ fcn' = PyStr("not_")
    /\ out' = not_(exprs[1])
    /\ pc' = "done"
    /\ UNCHANGED <<exprs, expression, parsed, self, other, equal, receiver, returned>>

Conjoin ==
    /\ pc = "call"
    /\ fcn' = PyStr("and_")
    /\ out' = and_(exprs)
    /\ pc' = "done"
    /\ UNCHANGED <<exprs, expression, parsed, self, other, equal, receiver, returned>>

Disjoin ==
    /\ pc = "call"
    /\ fcn' = PyStr("or_")
    /\ out' = or_(exprs)
    /\ pc' = "done"
    /\ UNCHANGED <<exprs, expression, parsed, self, other, equal, receiver, returned>>

NextLogic == Negate \/ Conjoin \/ Disjoin

SpecLogic == InitLogic /\ [][NextLogic]_vars

\* The number of nodes of a tree: Relations, Ands, Ors and tuples.
RECURSIVE Size(_)
Size(v) ==
    LET children ==
            CASE v.tag = "tuple" -> v.items
              [] v.tag \in {"And", "Or"} -> v.args
              [] OTHER -> <<>>
        RECURSIVE sum(_)
        sum(seq) == IF seq = <<>> THEN 0 ELSE Size(Head(seq)) + sum(Tail(seq))
    IN  1 + sum(children)

\* Compositions of the three functions, as recurse composes them for nested
\* `not`, `and`, `or`: the arguments are Relations and trees returned earlier.
InitCompose ==
    /\ pc = "call"
    /\ exprs \in {<<a>> : a \in Rels} \cup {<<a, b>> : a \in Rels, b \in Rels}
    /\ fcn = Idle /\ out = Idle
    /\ expression = Idle /\ parsed = Idle
    /\ self = Idle /\ other = Idle /\ equal = Idle
    /\ receiver = Idle /\ returned = Idle

\* The returned tree becomes an argument of the next call, alone or beside a
\* Relation or an argument of the call that returned it.
Feed ==
    /\ pc = "done"
    /\ ~IsRaise(out)
    /\ Size(out) <= MaxSize
    /\ \E e \in Rels \cup {exprs[i] : i \in 1..Len(exprs)} :
           exprs' \in {<<out>>, <<out, e>>, <<e, out>>}
    /\ fcn' = Idle
    /\ out' = Idle
    /\ pc' = "call"
    /\ UNCHANGED <<expression, parsed, self, other, equal, receiver, returned>>

NextCompose == Negate \/ Conjoin \/ Disjoin \/ Feed

SpecCompose == InitCompose /\ [][NextCompose]_vars

InitEq ==
    /\ pc = "call"
    /\ self \in Trees
    /\ other \in Trees
    /\ equal = Idle
    /\ expression = Idle /\ parsed = Idle
    /\ exprs = Idle /\ fcn = Idle /\ out = Idle
    /\ receiver = Idle /\ returned = Idle

Eq ==
    /\ pc = "call"
    /\ equal' = [tag |-> "bool", value |-> PyEq(self, other)]
    /\ pc' = "done"
    /\ UNCHANGED <<self, other, expression, parsed, exprs, fcn, out, receiver, returned>>

SpecEq == InitEq /\ [][Eq]_vars

\* The histograms the chains are made for: one axis, and two.
Hists ==
    {Hist(<<>>, <<Axis("x")>>), Hist(<<Axis("y")>>, <<Axis("x")>>)}

\* The axis arguments of a call: none, the name of an axis, an axis object.
AxisArgs == {None, PyStr("x"), Axis("x")}

\* The first FacetChain: what overlay, stack, beside, below of a histogram make.
InitFacet ==
    /\ pc = "call"
    /\ receiver \in {FacetChain(h, f) :
                        h \in Hists,
                        f \in {OverlayFacet(Axis("x")), StackFacet(Axis("x")),
                               BesideFacet(Axis("x")), BelowFacet(Axis("x"))}}
    /\ returned = Idle
    /\ expression = Idle /\ parsed = Idle
    /\ exprs = Idle /\ fcn = Idle /\ out = Idle
    /\ self = Idle /\ other = Idle /\ equal = Idle

\* The chains a method can be called on: the last receiver, and the chain the
\* last call returned.
Receivers == {receiver} \cup (IF returned.tag = "FacetChain" THEN {returned} ELSE {})

\* this.method(...) returned or raised `result`.
Called(this, result) ==
    /\ receiver' = this
    /\ returned' = result
    /\ pc' = "done"
    /\ UNCHANGED <<expression, parsed, exprs, fcn, out, self, other, equal>>

Overlay == \E this \in Receivers, axis \in AxisArgs : Called(this, overlay(this, axis))

Stack == \E this \in Receivers, axis \in AxisArgs : Called(this, stack(this, axis))

Beside == \E this \in Receivers, axis \in AxisArgs : Called(this, beside(this, axis))

Below == \E this \in Receivers, axis \in AxisArgs : Called(this, below(this, axis))

Step ==
    \E this \in Receivers, axis \in AxisArgs, profile \in AxisArgs :
        Called(this, step(this, axis, profile))

Area ==
    \E this \in Receivers, axis \in AxisArgs, profile \in AxisArgs :
        Called(this, area(this, axis, profile))

Line ==
    \E this \in Receivers, axis \in AxisArgs, profile \in AxisArgs, error \in BOOLEAN :
        Called(this, line(this, axis, profile, error))

Marker ==
    \E this \in Receivers, axis \in AxisArgs, profile \in AxisArgs, error \in BOOLEAN :
        Called(this, marker(this, axis, profile, error))

NextFacet == Overlay \/ Stack \/ Beside \/ Below \/ Step \/ Area \/ Line \/ Marker

SpecFacet == InitFacet /\ [][NextFacet]_vars

-----------------------------------------------------------------------------
(* Properties of the translator                                            *)

\* The node a one-expression string hands to recurse.
IsText(e) == e.form = "str" /\ Len(e.body) = 1 /\ e.body[1].kind = "Expr"

TopNode(e) == e.body[1].value

\* A node translates to a non-constant expression: an Expr that is no Const.
NonConstant(node) ==
    recurse(node, FALSE, FALSE).tag \in {"Name", "Call", "UnaryOp", "BinOp"}

Constant(node) == recurse(node, FALSE, FALSE).tag = "Const"

mirrored(op) ==
    CASE op = "Lt" -> "Gt"
      [] op = "LtE" -> "GtE"
      [] op = "Gt" -> "Lt"
      [] op = "GtE" -> "LtE"

\* C1: a top-level comparison written constant-first, `c op e`, translates to the
\* Relation the mirrored variable-first comparison `e op' c` translates to, which
\* is Relation(op', e, c).
C1_ConstantFirstIsMirrored ==
    (/\ pc = "done"
     /\ IsText(expression)
     /\ TopNode(expression).kind = "Compare"
     /\ Len(TopNode(expression).ops) = 1
     /\ TopNode(expression).ops[1] \in OrderOperators
     /\ Constant(TopNode(expression).left)
     /\ NonConstant(TopNode(expression).comparators[1]))
    => LET node == TopNode(expression)
           c == node.left
           e == node.comparators[1]
           flipped == ast_Compare(e, <<mirrored(node.ops[1])>>, <<c>>)
       IN  /\ parsed = Dim(<<>>, Relation(cmp_of(mirrored(node.ops[1])),
                                          recurse(e, FALSE, FALSE),
                                          recurse(c, FALSE, FALSE)))
           /\ parsed = parse(Text(<<ast_Expr(flipped)>>))

\* C2: a top-level chain A op1 x op2 B of one of the four accepted shapes, A and
\* B constants and x non-constant, translates to the Interval on x whose low is
\* the smaller-side bound, lowclosed iff the low-side operator is inclusive.
C2_IntervalDetected ==
    (/\ pc = "done"
     /\ IsText(expression)
     /\ TopNode(expression).kind = "Compare"
     /\ TopNode(expression).ops \in
            {<<"LtE", "Lt">>, <<"Lt", "LtE">>, <<"Gt", "GtE">>, <<"GtE", "Gt">>}
     /\ Constant(TopNode(expression).left)
     /\ Constant(TopNode(expression).comparators[2])
     /\ NonConstant(TopNode(expression).comparators[1]))
    => LET node == TopNode(expression)
           A == recurse(node.left, FALSE, FALSE)
           B == recurse(node.comparators[2], FALSE, FALSE)
           x == recurse(node.comparators[1], FALSE, FALSE)
       IN  parsed =
               Dim(<<>>,
                   CASE node.ops = <<"LtE", "Lt">> -> Interval(x, A, B, TRUE)
                     [] node.ops = <<"Lt", "LtE">> -> Interval(x, A, B, FALSE)
                     [] node.ops = <<"Gt", "GtE">> -> Interval(x, B, A, TRUE)
                     [] node.ops = <<"GtE", "Gt">> -> Interval(x, B, A, FALSE))

\* (a op b) op c or a op (b op c), the operands a, b, c (in source order) when the
\* node is one of the two, for one supported operator and three names.
IsChainOfThree(node) ==
    /\ node.kind = "BinOp"
    /\ fcn_of(node.op) # "unsupported"
    /\ \/ /\ node.left.kind = "BinOp" /\ node.left.op = node.op
          /\ {node.left.left, node.left.right, node.right} \subseteq NameNodes
       \/ /\ node.right.kind = "BinOp" /\ node.right.op = node.op
          /\ {node.left, node.right.left, node.right.right} \subseteq NameNodes

ChainOperands(node) ==
    IF node.left.kind = "BinOp"
    THEN <<Name(node.left.left.id), Name(node.left.right.id), Name(node.right.id)>>
    ELSE <<Name(node.left.id), Name(node.right.left.id), Name(node.right.right.id)>>

\* C3: (a op b) op c and a op (b op c) both translate to the one BinOp whose args
\* is the flat ordered 3-tuple (a, b, c).
C3_ChainIsFlat ==
    (pc = "done" /\ IsText(expression) /\ IsChainOfThree(TopNode(expression)))
    => parsed = Dim(<<>>, BinOp(fcn_of(TopNode(expression).op),
                                ChainOperands(TopNode(expression))))

RECURSIVE ContainsNone(_)
\* None is the value, or a child at any depth.
ContainsNone(v) ==
    LET children ==
            CASE v.tag = "tuple" -> v.items
              [] v.tag \in {"Call", "UnaryOp", "BinOp", "And", "Or"} -> v.args
              [] v.tag = "Relation" -> <<v.arg, v.const>>
              [] v.tag = "Interval" -> <<v.arg, v.low, v.high>>
              [] OTHER -> <<>>
    IN  v.tag = "None" \/ \E i \in 1..Len(children) : ContainsNone(children[i])

RECURSIVE HasUnhandled(_)
\* A node of a kind no case of recurse handles is the node or below it.
HasUnhandled(node) ==
    LET children ==
            CASE node.kind = "Set" -> node.elts
              [] node.kind = "Compare" -> <<node.left>> \o node.comparators
              [] node.kind = "UnaryOp" -> <<node.operand>>
              [] node.kind = "BinOp" -> <<node.left, node.right>>
              [] node.kind = "BoolOp" -> node.values
              [] node.kind = "Call" -> node.args
              [] OTHER -> <<>>
    IN  \/ node.kind \in {"Subscript", "Attribute"}
        \/ node.kind = "Dict" /\ Len(node.keys) > 0
        \/ \E i \in 1..Len(children) : HasUnhandled(children[i])

\* C7: a syntax tree holding a node kind no case handles makes the call fail with
\* the grammar error, and no returned Dim has a missing expr or a missing child.
C7_UnhandledSyntaxFails ==
    pc = "done" =>
        /\ (IsText(expression) /\ HasUnhandled(TopNode(expression)))
               => parsed = Raise("ExpressionError")
        /\ parsed.tag = "Dim" => ~ContainsNone(parsed.expr)

\* The callee of a call is neither a canonical registered name nor resolvable to
\* an entry of the registry.
Unregistered(func) ==
    /\ ~(func.kind = "Name" /\ func.id \in {recognized[p] : p \in DOMAIN recognized})
    /\ \/ IsRaise(resolve(func))
       \/ resolve(func).path \notin DOMAIN recognized

\* C8: a call of an unregistered function, a bare name or an attribute reference,
\* fails with the grammar error.
C8_UnregisteredCallIsGrammarError ==
    (/\ pc = "done"
     /\ IsText(expression)
     /\ TopNode(expression).kind = "Call"
     /\ Unregistered(TopNode(expression).func))
    => parsed = Raise("ExpressionError")

\* C10: -(-x) and ~(~x) translate to what x translates to, for non-constant x.
C10_DoubleUnaryCancels ==
    (/\ pc = "done"
     /\ IsText(expression)
     /\ TopNode(expression).kind = "UnaryOp"
     /\ TopNode(expression).op \in {"USub", "Invert"}
     /\ TopNode(expression).operand.kind = "UnaryOp"
     /\ TopNode(expression).operand.op = TopNode(expression).op
     /\ NonConstant(TopNode(expression).operand.operand))
    => parsed = Dim(<<>>, recurse(TopNode(expression).operand.operand, FALSE, FALSE))

IsInt(v) == "type" \in DOMAIN v /\ v.type = "int"

\* Bit k of a natural number.
Bit(a, k) == (a \div (2 ^ k)) % 2

Undefined == [type |-> "undefined"]

\* Python's a op b on integers, where it is defined: Undefined where it is not (a
\* zero divisor, a negative exponent) and for an operand the formula leaves out.
Operate(op, a, b) ==
    LET bitwise(f(_, _)) ==
            IF a \in 0..15 /\ b \in 0..15
            THEN PyInt(f(Bit(a, 0), Bit(b, 0)) + 2 * f(Bit(a, 1), Bit(b, 1))
                       + 4 * f(Bit(a, 2), Bit(b, 2)) + 8 * f(Bit(a, 3), Bit(b, 3)))
            ELSE Undefined
        either(i, j) == IF i + j > 0 THEN 1 ELSE 0
        both(i, j) == i * j
        differ(i, j) == (i + j) % 2
    IN  CASE op = "Add" -> PyInt(a + b)
          [] op = "Sub" -> PyInt(a - b)
          [] op = "Mult" -> PyInt(a * b)
          [] op = "Div" -> IF b # 0 THEN PyFloat(a, b) ELSE Undefined
          [] op = "FloorDiv" -> IF a >= 0 /\ b > 0 THEN PyInt(a \div b) ELSE Undefined
          [] op = "Mod" -> IF a >= 0 /\ b > 0 THEN PyInt(a % b) ELSE Undefined
          [] op = "Pow" -> IF a >= 0 /\ b > 0 THEN PyInt(a ^ b)
                           ELSE IF b = 0 THEN PyInt(1) ELSE Undefined
          [] op = "BitOr" -> bitwise(either)
          [] op = "BitAnd" -> bitwise(both)
          [] op = "BitXor" -> bitwise(differ)
          [] OTHER -> Undefined

\* The operands of a BinOp: its args, the tuples among them opened.
RECURSIVE Operands(_)
Operands(seq) ==
    IF seq = <<>> THEN <<>>
    ELSE (IF Head(seq).tag = "tuple" THEN Operands(Head(seq).items) ELSE <<Head(seq)>>)
         \o Operands(Tail(seq))

RECURSIVE HasConstantBinOp(_)
\* A BinOp all of whose operands are Const is the value, or below it.
HasConstantBinOp(v) ==
    LET children ==
            CASE v.tag = "tuple" -> v.items
              [] v.tag \in {"Call", "UnaryOp", "BinOp", "And", "Or"} -> v.args
              [] v.tag = "Relation" -> <<v.arg, v.const>>
              [] v.tag = "Interval" -> <<v.arg, v.low, v.high>>
              [] OTHER -> <<>>
    IN  \/ /\ v.tag = "BinOp"
           /\ \A i \in 1..Len(Operands(v.args)) : Operands(v.args)[i].tag = "Const"
        \/ \E i \in 1..Len(children) : HasConstantBinOp(children[i])

\* C12: a binary operator of the table on two integer constants it is defined on
\* translates to the one Const holding Python's result, and no returned tree
\* holds a BinOp all of whose operands are Const.
C12_ConstantsFold ==
    pc = "done" =>
        /\ (/\ IsText(expression)
            /\ TopNode(expression).kind = "BinOp"
            /\ Constant(TopNode(expression).left)
            /\ Constant(TopNode(expression).right))
           => LET node == TopNode(expression)
                  a == recurse(node.left, FALSE, FALSE).value
                  b == recurse(node.right, FALSE, FALSE).value
              IN  (IsInt(a) /\ IsInt(b) /\ Operate(node.op, a.n, b.n) # Undefined)
                  => parsed = Dim(<<>>, Const(Operate(node.op, a.n, b.n)))
        /\ parsed.tag = "Dim" => ~HasConstantBinOp(parsed.expr)

C12_Folded ==
    /\ pc = "done"
    /\ expression = Text(<<ast_Expr(ast_BinOp(ast_Num(1), "Add", ast_Num(2)))>>)
    /\ parsed = Dim(<<>>, Const(PyInt(3)))

\* C14: no call of the translator ends in an assertion failure: Negate is only
\* applied to a Relation, an And or an Or, and Conjoin always has a branch.
C14_NoAssertionFailure ==
    pc = "done" => parsed # Raise("AssertionError")

\* A chain c1 op1 m op2 c2 of one of the four accepted shapes, the bounds
\* constants and the middle non-constant.
IsIntervalChain(node) ==
    /\ node.kind = "Compare"
    /\ node.ops \in {<<"LtE", "Lt">>, <<"Lt", "LtE">>, <<"Gt", "GtE">>, <<"GtE", "Gt">>}
    /\ Constant(node.left)
    /\ Constant(node.comparators[2])
    /\ NonConstant(node.comparators[1])

\* The Interval the chain stands for.
IntervalOf(node) ==
    LET A == recurse(node.left, FALSE, FALSE)
        B == recurse(node.comparators[2], FALSE, FALSE)
        x == recurse(node.comparators[1], FALSE, FALSE)
    IN  CASE node.ops = <<"LtE", "Lt">> -> Interval(x, A, B, TRUE)
          [] node.ops = <<"Lt", "LtE">> -> Interval(x, A, B, FALSE)
          [] node.ops = <<"Gt", "GtE">> -> Interval(x, B, A, TRUE)
          [] node.ops = <<"GtE", "Gt">> -> Interval(x, B, A, FALSE)

RECURSIVE Contains(_, _)
\* The tree t is the value, or a child at any depth.
Contains(v, t) ==
    LET children ==
            CASE v.tag = "tuple" -> v.items
              [] v.tag \in {"Call", "UnaryOp", "BinOp", "And", "Or"} -> v.args
              [] v.tag = "Relation" -> <<v.arg, v.const>>
              [] v.tag = "Interval" -> <<v.arg, v.low, v.high>>
              [] OTHER -> <<>>
    IN  v = t \/ \E i \in 1..Len(children) : Contains(children[i], t)

\* C15: an interval chain as an operand of a top-level `and` / `or` is not
\* rejected: the call returns a logical tree that holds the chain's Interval.
C15_IntervalUnderBoolean ==
    (/\ pc = "done"
     /\ IsText(expression)
     /\ TopNode(expression).kind = "BoolOp"
     /\ TopNode(expression).op \in {"And", "Or"})
    => \A i \in 1..Len(TopNode(expression).values) :
           IsIntervalChain(TopNode(expression).values[i])
           => /\ parsed.tag = "Dim"
              /\ parsed.expr.tag \in {"And", "Or"}
              /\ Contains(parsed.expr, IntervalOf(TopNode(expression).values[i]))

\* Comparison or boolean syntax: a comparison, `and` / `or`, or `not`.
IsLogicalSyntax(node) ==
    \/ node.kind \in {"Compare", "BoolOp"}
    \/ node.kind = "UnaryOp" /\ node.op = "Not"

\* The operands of arithmetic syntax: of a binary operator, of unary minus, plus
\* or bitwise not, the arguments of a call, the elements of a set, the operands
\* of a comparison.
ArithmeticOperands(node) ==
    CASE node.kind = "BinOp" -> <<node.left, node.right>>
      [] node.kind = "UnaryOp" /\ node.op # "Not" -> <<node.operand>>
      [] node.kind = "Call" -> node.args
      [] node.kind = "Set" -> node.elts
      [] node.kind = "Compare" -> <<node.left>> \o node.comparators
      [] OTHER -> <<>>

RECURSIVE HasNestedLogical(_)
\* Comparison or boolean syntax is an operand of arithmetic syntax, at the node
\* or below it.
HasNestedLogical(node) ==
    LET operands == ArithmeticOperands(node)
        children ==
            CASE node.kind = "BoolOp" -> node.values
              [] node.kind = "UnaryOp" -> <<node.operand>>
              [] OTHER -> operands
    IN  \/ \E i \in 1..Len(operands) : IsLogicalSyntax(operands[i])
        \/ \E i \in 1..Len(children) : HasNestedLogical(children[i])

RECURSIVE LogicalBelow(_, _)
\* A Relation, Interval, And or Or occurs in the tree below a BinOp, UnaryOp,
\* Call or Const, or in the arg or a bound of a Relation or Interval; `under`
\* says the value itself is below one.
LogicalBelow(v, under) ==
    LET logical == v.tag \in {"Relation", "Interval", "And", "Or"}
        children ==
            CASE v.tag = "tuple" -> v.items
              [] v.tag \in {"Call", "UnaryOp", "BinOp", "And", "Or"} -> v.args
              [] v.tag = "Relation" -> <<v.arg, v.const>>
              [] v.tag = "Interval" -> <<v.arg, v.low, v.high>>
              [] OTHER -> <<>>
        inside == under \/ v.tag \in {"Call", "UnaryOp", "BinOp", "Relation", "Interval"}
    IN  \/ under /\ logical
        \/ \E i \in 1..Len(children) : LogicalBelow(children[i], inside)

\* C16: comparison or boolean syntax as an operand of arithmetic syntax makes the
\* call fail with the grammar error, and no returned tree holds a Relation,
\* Interval, And or Or below arithmetic.
C16_LogicalOnlyAtTop ==
    pc = "done" =>
        /\ (IsText(expression) /\ HasNestedLogical(TopNode(expression)))
               => parsed = Raise("ExpressionError")
        /\ parsed.tag = "Dim" => ~LogicalBelow(parsed.expr, FALSE)

-----------------------------------------------------------------------------
(* Properties of the normalizer                                            *)

IsRelation(x) == x.tag = "Relation"

AllRelations(seq) == \A i \in 1..Len(seq) : IsRelation(seq[i])

\* The arguments with the children of every `tag` argument spliced in, in order.
RECURSIVE Spliced(_, _)
Spliced(seq, tag) ==
    IF seq = <<>> THEN <<>>
    ELSE (IF Head(seq).tag = tag THEN Head(seq).args ELSE <<Head(seq)>>)
         \o Spliced(Tail(seq), tag)

\* C4: with no Or among the arguments, Conjoin returns the And of the plain
\* arguments and the children of the And arguments, in source order, each child
\* an Expr.
C4_ConjoinFlattens ==
    (/\ pc = "done"
     /\ fcn = PyStr("and_")
     /\ \A i \in 1..Len(exprs) :
            \/ IsRelation(exprs[i])
            \/ IsAnd(exprs[i]) /\ AllRelations(exprs[i].args))
    => /\ out = And(Spliced(exprs, "And"))
       /\ PyEq(out, And(Spliced(exprs, "And")))

\* C5: Disjoin returns the Or of the arguments with the children of every Or
\* argument spliced in, in the left-to-right order of the source.
C5_DisjoinKeepsOrder ==
    (/\ pc = "done"
     /\ fcn = PyStr("or_")
     /\ \A i \in 1..Len(exprs) :
            \/ IsRelation(exprs[i])
            \/ IsOr(exprs[i]) /\ AllRelations(exprs[i].args))
    => PyEq(out, Or(Spliced(exprs, "Or")))

\* A Relation or an And of Relations.
IsConjunct(x) == IsRelation(x) \/ (IsAnd(x) /\ AllRelations(x.args))

\* Disjunctive normal form: a conjunct, or an Or of conjuncts.
IsDNF(x) ==
    \/ IsConjunct(x)
    \/ IsOr(x) /\ \A i \in 1..Len(x.args) : IsConjunct(x.args[i])

\* C6: Conjoin of one argument already in DNF returns a tree equal to it, and so
\* does Disjoin of one Or already in DNF.
C6_NormalizingIsIdempotent ==
    (pc = "done" /\ Len(exprs) = 1 /\ IsDNF(exprs[1]))
    => /\ fcn = PyStr("and_") => PyEq(out, exprs[1])
       /\ (fcn = PyStr("or_") /\ IsOr(exprs[1])) => PyEq(out, exprs[1])

\* The pairs of a comparison and its negation.
Negations ==
    {<<"==", "!=">>, <<"!=", "==">>, <<"<", ">=">>, <<">=", "<">>, <<"<=", ">">>,
     <<">", "<=">>, <<"in", "not in">>, <<"not in", "in">>}

\* n is the Relation r with its comparison replaced by the negation.
IsNegationOf(n, r) ==
    /\ n.tag = "Relation"
    /\ <<r.cmp, n.cmp>> \in Negations
    /\ n.arg = r.arg
    /\ n.const = r.const

\* C11: De Morgan.  Negate of And(A, B), A and B Relations, is the Or of the two
\* negated Relations, and Negate of Or(A, B) is the And of them, in order; a
\* negated Relation keeps arg and const and has the negated comparison.
C11_DeMorgan ==
    (/\ pc = "done"
     /\ fcn = PyStr("not_")
     /\ exprs[1].tag \in {"And", "Or"}
     /\ Len(exprs[1].args) = 2
     /\ AllRelations(exprs[1].args))
    => /\ out.tag = (IF IsAnd(exprs[1]) THEN "Or" ELSE "And")
       /\ Len(out.args) = 2
       /\ \A i \in 1..2 : IsNegationOf(out.args[i], exprs[1].args[i])

C11_Negated ==
    /\ pc = "done"
    /\ fcn = PyStr("not_")
    /\ exprs = <<Or(<<RelPool[1], RelPool[2]>>)>>
    /\ out = And(<<Relation(">=", RelPool[1].arg, RelPool[1].const),
                   Relation("!=", RelPool[2].arg, RelPool[2].const)>>)

\* C13: every tree a composition of Negate, Conjoin and Disjoin returns, starting
\* from Relations, is in disjunctive normal form: a Relation, an And of
\* Relations, or an Or of Relations and Ands of Relations.
C13_CompositionsAreDNF ==
    (pc = "done" /\ ~IsRaise(out)) => IsDNF(out)

\* A tree of Relations, Ands and Ors, every child of an And or Or such a tree.
RECURSIVE IsBoolean(_)
IsBoolean(v) ==
    \/ v.tag = "Relation"
    \/ /\ v.tag \in {"And", "Or"}
       /\ \A i \in 1..Len(v.args) : IsBoolean(v.args[i])

\* Of a Relation and its negation, the one that is assigned a truth value.
Positive(r) ==
    IF r.cmp \in {"==", "<", "<=", "in"} THEN r
    ELSE Relation(CHOOSE c \in {"==", "<", "<=", "in"} : <<r.cmp, c>> \in Negations,
                  r.arg, r.const)

\* The assignments of true and false to the Relations of a run; the negation of
\* a Relation has the opposite value.
Assignments == [{Positive(RelPool[i]) : i \in 1..Len(RelPool)} -> BOOLEAN]

\* The truth value of a tree under an assignment.
RECURSIVE Eval(_, _)
Eval(v, sigma) ==
    CASE v.tag = "Relation" -> IF v = Positive(v) THEN sigma[v] ELSE ~sigma[Positive(v)]
      [] v.tag = "And" -> \A i \in 1..Len(v.args) : Eval(v.args[i], sigma)
      [] v.tag = "Or" -> \E i \in 1..Len(v.args) : Eval(v.args[i], sigma)

\* C17: under every assignment Negate(e) has the negated value of e, Conjoin the
\* conjunction and Disjoin the disjunction of the values of its arguments, the
\* arguments being Relations, Ands and Ors.
C17_TruthPreserved ==
    (pc = "done" /\ \A i \in 1..Len(exprs) : IsBoolean(exprs[i]))
    => /\ IsBoolean(out)
       /\ \A sigma \in Assignments :
              Eval(out, sigma) <=>
                  CASE fcn = PyStr("not_") -> ~Eval(exprs[1], sigma)
                    [] fcn = PyStr("and_") ->
                           \A i \in 1..Len(exprs) : Eval(exprs[i], sigma)
                    [] fcn = PyStr("or_") ->
                           \E i \in 1..Len(exprs) : Eval(exprs[i], sigma)

-----------------------------------------------------------------------------
(* Properties of ==                                                        *)

IsExpr(x) ==
    x.tag \in {"Const", "Name", "Call", "UnaryOp", "BinOp", "Relation", "Interval",
               "And", "Or"}

\* C9: two Expr trees compare equal exactly when they have the same variant tag
\* and equal children at every depth.
C9_EqualityIsStructural ==
    (pc = "done" /\ IsExpr(self) /\ IsExpr(other))
    => (equal.value <=> self = other)

-----------------------------------------------------------------------------
(* Properties of the facet chains                                          *)

IsChain(obj) == obj.tag \in {"FacetChain", "Plotable"}

\* At most one facet of each of the four splitting classes, and a Plotable that
\* holds a StackFacet ends in an AreaFacet.
WellFormed(obj) ==
    IsChain(obj) =>
        /\ \A class \in {"OverlayFacet", "StackFacet", "BesideFacet", "BelowFacet"} :
               Cardinality({i \in 1..Len(obj.chain) : obj.chain[i].tag = class}) <= 1
        /\ (obj.tag = "Plotable" /\ AnyFacet(obj, {"StackFacet"}))
               => obj.chain[Len(obj.chain)].tag = "AreaFacet"

\* C18: every FacetChain and Plotable reached by overlay, stack, beside, below,
\* step, area, line and marker calls holds at most one OverlayFacet, StackFacet,
\* BesideFacet and BelowFacet, and a Plotable with a StackFacet ends in an
\* AreaFacet; a call leaves its receiver as it was, a rejected call returns no
\* chain, and an accepted call returns a new object with the receiver's source
\* and the receiver's chain plus one item.
C18_ChainsWellFormed ==
    /\ WellFormed(receiver)
    /\ [][/\ WellFormed(receiver')
          /\ WellFormed(returned')
          /\ receiver' \in Receivers
          /\ \/ IsRaise(returned')
             \/ /\ IsChain(returned')
                /\ returned'.source = receiver'.source
                /\ Len(returned'.chain) = Len(receiver'.chain) + 1
                /\ SubSeq(returned'.chain, 1, Len(receiver'.chain)) = receiver'.chain]_vars

C18_StackedArea ==
    /\ returned.tag = "Plotable"
    /\ receiver.tag = "FacetChain"
    /\ Len(receiver.chain) = 2
    /\ AnyFacet(receiver, {"StackFacet"})
    /\ returned.chain = receiver.chain \o <<AreaFacet(Axis("x"), None)>>

====
